---- MODULE Spec2Model ----
(***************************************************************************)
(* Model of the okx1205 trading server: the decision validator and sizer   *)
(* (services/aiService.ts, getTradingDecision), the strategy stages        *)
(* (constants.ts) and the background trading loop with its execution       *)
(* router (server.ts, runTradingLoop).                                     *)
(*                                                                         *)
(* JavaScript values are records [t, n, d, s]:                             *)
(*   t = "num"        the finite number n/d (d > 0, lowest terms)          *)
(*   t = "nan"        NaN                                                  *)
(*   t = "inf"        +Infinity (n = 1) or -Infinity (n = -1)              *)
(*   t = "undefined"  undefined,  t = "null"  null                         *)
(*   t = "str"        the string s                                         *)
(* Finite numbers are exact rationals: the rounding of IEEE doubles is not *)
(* modelled, NaN and the infinities are.                                   *)
(***************************************************************************)
EXTENDS Integers, Sequences, FiniteSets, TLC

VARIABLES
    call,             \* SpecSizer: the arguments of one getTradingDecision call
    ret,              \* SpecSizer: what that call produced ("pending" before)
    clock,            \* Date.now(), in ms
    isRunning,        \* server.ts: let isRunning
    apiKey,           \* server.ts: config.deepseekApiKey
    marketData,       \* server.ts: let marketData
    accountData,      \* server.ts: let accountData
    latestDecision,   \* server.ts: let latestDecision
    logs,             \* server.ts: let logs
    lastAnalysisTime, \* server.ts: let lastAnalysisTime
    fetches,          \* runTradingLoop invocations suspended in step 1
    requests,         \* POST /api/toggle and /api/config requests served
    timers,           \* setTimeout(..., 0) callbacks not yet run, in order
    passes            \* analysis callbacks, running or finished

vars == <<call, ret, clock, isRunning, apiKey, marketData, accountData,
          latestDecision, logs, lastAnalysisTime, fetches, requests, timers,
          passes>>

loopVars == <<clock, isRunning, apiKey, marketData, accountData,
              latestDecision, logs, lastAnalysisTime, fetches, requests,
              timers, passes>>

-----------------------------------------------------------------------------
(* JavaScript values *)

Undefined == [t |-> "undefined", n |-> 0, d |-> 1, s |-> ""]
Null == [t |-> "null", n |-> 0, d |-> 1, s |-> ""]
NaN == [t |-> "nan", n |-> 0, d |-> 1, s |-> ""]
PosInf == [t |-> "inf", n |-> 1, d |-> 1, s |-> ""]
NegInf == [t |-> "inf", n |-> -1, d |-> 1, s |-> ""]
Str(s) == [t |-> "str", n |-> 0, d |-> 1, s |-> s]

Abs(x) == IF x < 0 THEN -x ELSE x

Sgn(x) == IF x < 0 THEN -1 ELSE IF x > 0 THEN 1 ELSE 0

RECURSIVE GCD(_, _)
GCD(a, b) == IF b = 0 THEN a ELSE GCD(b, a % b)

\* the finite number n/d, d > 0, in lowest terms
Rat(n, d) ==
    LET g == GCD(Abs(n), d)
    IN  [t |-> "num", n |-> n \div g, d |-> d \div g, s |-> ""]

Num(n) == Rat(n, 1)

IsNumeric(v) == v.t \in {"num", "nan", "inf"}

IsFinite(v) == v.t = "num"

\* ToNumber, as applied by the arithmetic operators to a non-number operand
ToNumber(v) ==
    IF IsNumeric(v) THEN v
    ELSE IF v.t = "null" THEN Num(0)
    ELSE NaN

IsNaN(v) == ToNumber(v).t = "nan"

Inf(sign) == IF sign < 0 THEN NegInf ELSE PosInf

\* a * b
JsMul(a, b) ==
    LET x == ToNumber(a)
        y == ToNumber(b)
    IN  IF x.t = "nan" \/ y.t = "nan" THEN NaN
        ELSE IF x.t = "inf" \/ y.t = "inf"
             THEN IF Sgn(x.n) * Sgn(y.n) = 0 THEN NaN
                  ELSE Inf(Sgn(x.n) * Sgn(y.n))
        ELSE Rat(x.n * y.n, x.d * y.d)

\* a / b (a zero divisor is +0)
JsDiv(a, b) ==
    LET x == ToNumber(a)
        y == ToNumber(b)
    IN  IF x.t = "nan" \/ y.t = "nan" THEN NaN
        ELSE IF x.t = "inf"
             THEN IF y.t = "inf" THEN NaN
                  ELSE Inf(x.n * (IF y.n < 0 THEN -1 ELSE 1))
        ELSE IF y.t = "inf" THEN Num(0)
        ELSE IF y.n = 0
             THEN IF x.n = 0 THEN NaN ELSE Inf(x.n)
        ELSE Rat(x.n * y.d * Sgn(y.n), x.d * Abs(y.n))

\* a - b, on finite numbers and NaN
JsSub(a, b) ==
    LET x == ToNumber(a)
        y == ToNumber(b)
    IN  IF x.t = "nan" \/ y.t = "nan" THEN NaN
        ELSE IF x.t = "inf"
             THEN IF y.t = "inf" /\ y.n = x.n THEN NaN ELSE x
        ELSE IF y.t = "inf" THEN Inf(-y.n)
        ELSE Rat(x.n * y.d - y.n * x.d, x.d * y.d)

\* a + b
JsAdd(a, b) ==
    LET x == ToNumber(a)
        y == ToNumber(b)
    IN  IF x.t = "nan" \/ y.t = "nan" THEN NaN
        ELSE IF x.t = "inf"
             THEN IF y.t = "inf" /\ y.n # x.n THEN NaN ELSE x
        ELSE IF y.t = "inf" THEN y
        ELSE Rat(x.n * y.d + y.n * x.d, x.d * y.d)

\* a < b: false as soon as one side is NaN
JsLt(a, b) ==
    LET x == ToNumber(a)
        y == ToNumber(b)
    IN  IF x.t = "nan" \/ y.t = "nan" THEN FALSE
        ELSE IF x.t = "inf" /\ y.t = "inf" THEN x.n < y.n
        ELSE IF x.t = "inf" THEN x.n < 0
        ELSE IF y.t = "inf" THEN y.n > 0
        ELSE x.n * y.d < y.n * x.d

JsGt(a, b) == JsLt(b, a)

\* a >= b: false as soon as one side is NaN
JsGe(a, b) ==
    ~IsNaN(a) /\ ~IsNaN(b) /\ ~JsLt(a, b)

\* Math.min(a, b)
JsMin(a, b) ==
    IF IsNaN(a) \/ IsNaN(b) THEN NaN
    ELSE IF JsLt(b, a) THEN ToNumber(b) ELSE ToNumber(a)

\* Math.floor(a)
JsFloor(a) ==
    LET x == ToNumber(a)
    IN  IF x.t = "num" THEN Num(x.n \div x.d) ELSE x

\* the truth value of a number in `x || y`
Truthy(v) ==
    CASE v.t = "num" -> v.n # 0
      [] v.t = "inf" -> TRUE
      [] v.t = "str" -> v.s # ""
      [] OTHER -> FALSE

TwoDigits(c) == IF c < 10 THEN "0" \o ToString(c) ELSE ToString(c)

\* Number.prototype.toString of a number
NumToString(v) ==
    CASE v.t = "nan" -> Str("NaN")
      [] v.t = "inf" -> Str(IF v.n < 0 THEN "-Infinity" ELSE "Infinity")
      [] v.t = "num" /\ v.d = 1 -> Str(ToString(v.n))
      [] OTHER ->
           LET cents == (Abs(v.n) * 100) \div v.d
           IN  Str((IF v.n < 0 THEN "-" ELSE "") \o ToString(cents \div 100)
                   \o "." \o TwoDigits(cents % 100))

\* Number.prototype.toFixed(2)
ToFixed2(v) ==
    CASE v.t = "nan" -> Str("NaN")
      [] v.t = "inf" -> Str(IF v.n < 0 THEN "-Infinity" ELSE "Infinity")
      [] OTHER ->
           LET cents == (2 * Abs(v.n) * 100 + v.d) \div (2 * v.d)
           IN  Str((IF v.n < 0 /\ cents > 0 THEN "-" ELSE "")
                   \o ToString(cents \div 100)
                   \o "." \o TwoDigits(cents % 100))

-----------------------------------------------------------------------------
(* Strings *)

\* parseFloat on the strings the model uses: the longest numeric prefix
ParseTable ==
    ("0" :> Num(0)) @@ ("1" :> Num(1)) @@ ("5" :> Num(5)) @@ ("10" :> Num(10))
    @@ ("20" :> Num(20)) @@ ("25" :> Num(25)) @@ ("30" :> Num(30))
    @@ ("40" :> Num(40)) @@ ("50" :> Num(50)) @@ ("100" :> Num(100))
    @@ ("150" :> Num(150)) @@ ("-10" :> Num(-10)) @@ ("-20" :> Num(-20))
    @@ ("-50" :> Num(-50)) @@ ("3000" :> Num(3000))
    @@ ("-3000" :> Num(-3000)) @@ ("2900" :> Num(2900))
    @@ ("3100" :> Num(3100)) @@ ("80%" :> Num(80)) @@ ("0%" :> Num(0))
    @@ ("3000abc" :> Num(3000)) @@ ("0.1" :> Rat(1, 10))
    @@ ("0.5" :> Rat(1, 2)) @@ ("0.6" :> Rat(3, 5)) @@ ("4" :> Num(4))
    @@ ("Infinity" :> PosInf) @@ ("5.5" :> Rat(11, 2))
    @@ ("200000" :> Num(200000))

\* parseFloat(v): a string by its numeric prefix, a number by its digits,
\* anything else (undefined, null, text without a numeric prefix) is NaN
ParseFloat(v) ==
    CASE v.t = "str" ->
           IF v.s \in DOMAIN ParseTable THEN ParseTable[v.s] ELSE NaN
      [] IsNumeric(v) -> v
      [] OTHER -> NaN

\* String.prototype.toUpperCase on the action tokens the model uses
UpperTable ==
    ("buy" :> "BUY") @@ ("sell" :> "SELL") @@ ("hold" :> "HOLD")
    @@ ("close" :> "CLOSE") @@ ("update_tpsl" :> "UPDATE_TPSL")
    @@ ("long" :> "LONG") @@ (" buy " :> " BUY ")

ToUpperCase(s) == IF s \in DOMAIN UpperTable THEN UpperTable[s] ELSE s

\* String.prototype.trim on the keys the model uses
Trim(s) == IF s = " " THEN "" ELSE s

-----------------------------------------------------------------------------
(* constants.ts *)

INSTRUMENT_ID == "ETH-USDT-SWAP"

\* 1 contract = 0.1 ETH
CONTRACT_VAL_ETH == Rat(1, 10)

\* STAGE_3 defines no risk_factor: reading it yields undefined
STRATEGY_STAGES ==
    [STAGE_1 |-> [name |-> "STAGE_1", leverage |-> Num(20),
                  risk_factor |-> Rat(8, 10)],
     STAGE_2 |-> [name |-> "STAGE_2", leverage |-> Num(10),
                  risk_factor |-> Rat(5, 10)],
     STAGE_3 |-> [name |-> "STAGE_3", leverage |-> Num(5),
                  risk_factor |-> Undefined]]

-----------------------------------------------------------------------------
(* services/aiService.ts *)

\* the k of calcEMA and its complement
EmaK(period) == JsDiv(Num(2), Num(period + 1))

\* one iteration of the loop of calcEMA
EmaStep(price, k, ema) ==
    JsAdd(JsMul(price, k), JsMul(ema, JsSub(Num(1), k)))

\* the loop of calcEMA over prices[lo..hi], in index order; the range is
\* halved so that long series are evaluated at a small nesting depth, and
\* the first half is computed before the second half starts
RECURSIVE EmaLoop(_, _, _, _, _)
EmaLoop(prices, k, lo, hi, ema) ==
    IF lo > hi THEN ema
    ELSE IF lo = hi THEN EmaStep(prices[lo], k, ema)
    ELSE LET half == EmaLoop(prices, k, lo, (lo + hi) \div 2, ema)
         IN  IF half = half
             THEN EmaLoop(prices, k, (lo + hi) \div 2 + 1, hi, half)
             ELSE half

\* calcEMA: a series shorter than the period yields its last element, which
\* is undefined for the empty series
calcEMA(prices, period) ==
    IF Len(prices) < period
    THEN IF Len(prices) = 0 THEN Undefined ELSE prices[Len(prices)]
    ELSE EmaLoop(prices, EmaK(period), 2, Len(prices), prices[1])

\* prices[i] - prices[i - 1] for the 0-based i of the code
Change(prices, i) == JsSub(prices[i + 1], prices[i])

\* the first loop of calcRSI: gains and losses of the first `period` changes
RECURSIVE RsiLoop(_, _, _, _)
RsiLoop(prices, period, i, acc) ==
    IF i > period THEN acc
    ELSE RsiLoop(prices, period, i + 1,
                 IF JsGt(Change(prices, i), Num(0))
                 THEN [gains |-> JsAdd(acc.gains, Change(prices, i)),
                       losses |-> acc.losses]
                 ELSE [gains |-> acc.gains,
                       losses |-> JsSub(acc.losses, Change(prices, i))])

\* avgGain and avgLoss before any smoothing
RsiAverages(prices, period) ==
    [gains |-> JsDiv(RsiLoop(prices, period, 1,
                             [gains |-> Num(0), losses |-> Num(0)]).gains,
                     Num(period)),
     losses |-> JsDiv(RsiLoop(prices, period, 1,
                              [gains |-> Num(0), losses |-> Num(0)]).losses,
                      Num(period))]

\* the end of calcRSI: 100 without losses, else 100 - 100 / (1 + rs)
RsiOf(avg) ==
    IF avg.losses = Num(0) THEN Num(100)
    ELSE JsSub(Num(100),
               JsDiv(Num(100),
                     JsAdd(Num(1), JsDiv(avg.gains, avg.losses))))

\* calcRSI with gains and losses exchanged
calcRSISwapped(prices, period) ==
    IF Len(prices) < period + 1 THEN Num(50)
    ELSE RsiOf([gains |-> RsiAverages(prices, period).losses,
                losses |-> RsiAverages(prices, period).gains])

\* calcRSI of services/aiService.ts (no smoothing)
calcRSI(prices, period) ==
    IF Len(prices) < period + 1 THEN Num(50)
    ELSE RsiOf(RsiAverages(prices, period))

\* the smoothing loop of the calcRSI of unnamed/part_004
RECURSIVE SmoothLoop(_, _, _, _)
SmoothLoop(prices, period, i, avg) ==
    IF i > Len(prices) - 1 THEN avg
    ELSE SmoothLoop(prices, period, i + 1,
           [gains |-> JsDiv(JsAdd(JsMul(avg.gains, Num(period - 1)),
                                  IF JsGt(Change(prices, i), Num(0))
                                  THEN Change(prices, i) ELSE Num(0)),
                            Num(period)),
            losses |-> JsDiv(JsAdd(JsMul(avg.losses, Num(period - 1)),
                                   IF JsLt(Change(prices, i), Num(0))
                                   THEN JsSub(Num(0), Change(prices, i))
                                   ELSE Num(0)),
                             Num(period))])

\* avgGain and avgLoss of the calcRSI of unnamed/part_004
SmoothedAverages(prices, period) ==
    SmoothLoop(prices, period, period + 1, RsiAverages(prices, period))

\* calcRSI of unnamed/part_004 (smoothed)
calcRSISmoothed(prices, period) ==
    IF Len(prices) < period + 1 THEN Num(50)
    ELSE RsiOf(SmoothedAverages(prices, period))

\* data.slice(-n)
LastN(data, n) ==
    IF Len(data) <= n THEN data
    ELSE SubSeq(data, Len(data) - n + 1, Len(data))

\* reduce((a, b) => a + b, 0)
RECURSIVE SumFrom(_, _, _)
SumFrom(data, i, sum) ==
    IF i > Len(data) THEN sum
    ELSE SumFrom(data, i + 1, JsAdd(sum, data[i]))

\* calcSMA of unnamed/part_004
calcSMA(data, period) ==
    IF Len(data) < period THEN Num(0)
    ELSE JsDiv(SumFrom(LastN(data, period), 1, Num(0)), Num(period))

\* macd, signal and hist from the macd line
MacdOf(macdLine) ==
    [macd |-> macdLine, signal |-> JsMul(macdLine, Rat(8, 10)),
     hist |-> JsSub(macdLine, JsMul(macdLine, Rat(8, 10)))]

\* calcMACD of services/aiService.ts
calcMACD(prices) ==
    IF Len(prices) < 26 THEN MacdOf(Num(0))
    ELSE MacdOf(JsSub(calcEMA(LastN(prices, 12), 12),
                      calcEMA(LastN(prices, 26), 26)))

\* x.toFixed(2) inside the prompt template throws a TypeError on undefined
ToFixedThrows(x) == x.t \in {"undefined", "null"}

\* a stage selection whose brackets include their upper bounds
StageOfInclusive(totalEquity) ==
    IF JsLt(totalEquity, Num(20)) \/ totalEquity = Num(20)
    THEN STRATEGY_STAGES.STAGE_1
    ELSE IF JsLt(totalEquity, Num(80)) \/ totalEquity = Num(80)
    THEN STRATEGY_STAGES.STAGE_2
    ELSE STRATEGY_STAGES.STAGE_3

\* the stage selected from total equity
StageOf(totalEquity) ==
    IF JsLt(totalEquity, Num(20)) THEN STRATEGY_STAGES.STAGE_1
    ELSE IF JsLt(totalEquity, Num(80)) THEN STRATEGY_STAGES.STAGE_2
    ELSE STRATEGY_STAGES.STAGE_3

MIN_OPEN_VALUE == 100

\* the object of the catch block
ErrorDecision ==
    [threw |-> FALSE, failed |-> TRUE, stage_analysis |-> Str("AI Error"),
     action |-> Str("HOLD"), size |-> Str("0"), leverage |-> Str("0"),
     td |-> [action |-> Str("hold"), confidence |-> Str("0%"),
             leverage |-> Str("0"), profit_target |-> Str("0"),
             stop_loss |-> Str("0")],
     notes |-> <<"System Error">>,
     safeLeverage |-> Undefined, confidence |-> Undefined,
     finalMargin |-> Undefined, positionValue |-> Undefined,
     numContracts |-> Undefined]

\* a rejected promise: the exception left getTradingDecision
Thrown ==
    [threw |-> TRUE, failed |-> TRUE, stage_analysis |-> Undefined,
     action |-> Undefined, size |-> Undefined, leverage |-> Undefined,
     td |-> [action |-> Undefined, confidence |-> Undefined,
             leverage |-> Undefined, profit_target |-> Undefined,
             stop_loss |-> Undefined],
     notes |-> <<>>,
     safeLeverage |-> Undefined, confidence |-> Undefined,
     finalMargin |-> Undefined, positionValue |-> Undefined,
     numContracts |-> Undefined]

\* confidence: parseFloat(...) || 50
Confidence(resp) ==
    LET parsed == ParseFloat(resp.confidence)
    IN  IF Truthy(parsed) THEN parsed ELSE Num(50)

\* safeLeverage: the stage's leverage when the reply's does not parse
SafeLeverage(resp, stage) ==
    LET leverage == ParseFloat(resp.leverage)
    IN  IF IsNaN(leverage) THEN stage.leverage ELSE leverage

\* finalMargin before the rescue: min(targetMargin, maxSafeMargin)
Margin(stage, availableEquity, confidence) ==
    JsMin(JsMul(JsMul(availableEquity, stage.risk_factor),
                JsDiv(confidence, Num(100))),
          JsMul(availableEquity, Rat(90, 100)))

\* a rescue that does not ask for any confidence
RescueAnyConfidence(positionValue, availableEquity, safeLeverage, confidence) ==
    /\ JsLt(positionValue, Num(MIN_OPEN_VALUE))
    /\ JsGt(JsMul(JsMul(availableEquity, Rat(9, 10)), safeLeverage),
            Num(MIN_OPEN_VALUE))

\* the condition of the rescue to the minimum notional
Rescue(positionValue, availableEquity, safeLeverage, confidence) ==
    /\ JsLt(positionValue, Num(MIN_OPEN_VALUE))
    /\ JsGt(JsMul(JsMul(availableEquity, Rat(9, 10)), safeLeverage),
            Num(MIN_OPEN_VALUE))
    /\ JsGe(confidence, Num(40))

\* the contract size without the rounding down to 0.01
ContractsUnfloored(positionValue, currentPrice) ==
    JsDiv(positionValue, JsMul(CONTRACT_VAL_ETH, currentPrice))

\* numContracts: floor(numContractsRaw * 100) / 100
Contracts(positionValue, currentPrice) ==
    JsDiv(JsFloor(JsMul(JsDiv(positionValue,
                              JsMul(CONTRACT_VAL_ETH, currentPrice)),
                        Num(100))),
          Num(100))

\* "Finalize Decision": the downgrades and the contract size
Finalize(resp, action0, currentPrice, safeLeverage, confidence, finalMargin, positionValue) ==
    LET numContracts == Contracts(positionValue, currentPrice)
        base == [threw |-> FALSE, failed |-> FALSE,
                 stage_analysis |-> resp.stage_analysis,
                 action |-> action0, size |-> Undefined,
                 leverage |-> Undefined,
                 td |-> [action |-> resp.action,
                         confidence |-> resp.confidence,
                         leverage |-> resp.leverage,
                         profit_target |-> resp.profit_target,
                         stop_loss |-> resp.stop_loss],
                 notes |-> <<>>,
                 safeLeverage |-> safeLeverage, confidence |-> confidence,
                 finalMargin |-> finalMargin,
                 positionValue |-> positionValue,
                 numContracts |-> Undefined]
    IN  IF action0.s \in {"BUY", "SELL"}
        THEN IF JsLt(positionValue, Num(MIN_OPEN_VALUE))
             THEN [base EXCEPT !.action = Str("HOLD"), !.size = Str("0"),
                               !.notes = <<"value below minimum">>]
             ELSE IF JsLt(numContracts, Rat(1, 100))
                  THEN [base EXCEPT !.action = Str("HOLD"),
                                    !.size = Str("0"),
                                    !.numContracts = numContracts,
                                    !.notes = <<"contracts below 0.01">>]
                  ELSE [base EXCEPT !.size = ToFixed2(numContracts),
                                    !.numContracts = numContracts,
                                    !.leverage = NumToString(safeLeverage)]
        ELSE [base EXCEPT !.size = Str("0"),
                          !.leverage = NumToString(safeLeverage)]

\* the rescue: margin and notional are raised to the minimum notional
Rescued(resp, currentPrice, safeLeverage, confidence, margin, value, rescue) ==
    Finalize(resp, Str(ToUpperCase(resp.action.s)), currentPrice,
             safeLeverage, confidence,
             IF rescue THEN JsDiv(Num(MIN_OPEN_VALUE), safeLeverage)
             ELSE margin,
             IF rescue THEN Num(MIN_OPEN_VALUE) ELSE value)

\* position sizing from the margin: the notional and the rescue test
Sized(resp, availableEquity, currentPrice, safeLeverage, confidence, margin) ==
    Rescued(resp, currentPrice, safeLeverage, confidence, margin,
            JsMul(margin, safeLeverage),
            Rescue(JsMul(margin, safeLeverage), availableEquity,
                   safeLeverage, confidence))

\* post-processing and validation of a parsed reply (the body of the try
\* block after JSON.parse)
Validate(resp, stage, availableEquity, currentPrice) ==
    Sized(resp, availableEquity, currentPrice, SafeLeverage(resp, stage),
          Confidence(resp),
          Margin(stage, availableEquity, Confidence(resp)))

\* callDeepSeek rejects a blank key before any request is sent
KeyRejected(key) == Trim(key) = ""

\* the close prices of the 15m candles
Closes(market) ==
    [i \in 1..Len(market.candles15m) |-> ParseFloat(market.candles15m[i])]

\* building the prompt throws: ema20.toFixed(2) on an undefined ema20
PromptThrows(market) == ToFixedThrows(calcEMA(Closes(market), 20))

\* getTradingDecision reaches the request to the reasoning service
NeedsReply(key, market) ==
    key # "" /\ ~PromptThrows(market) /\ ~KeyRejected(key)

\* getTradingDecision(apiKey, marketData, accountData), given the reply of
\* the reasoning service
getTradingDecision(key, market, account, resp) ==
    IF key = "" THEN Thrown
    ELSE
    LET last == IF market.ticker THEN market.last ELSE Undefined
        currentPrice == ParseFloat(IF Truthy(last) THEN last ELSE Str("0"))
        totalEquity == ParseFloat(account.totalEq)
        availableEquity == ParseFloat(account.availEq)
        stage == StageOf(totalEquity)
    IN  IF PromptThrows(market) THEN Thrown
        ELSE IF KeyRejected(key) \/ resp.kind = "error" THEN ErrorDecision
        ELSE IF resp.kind \in {"empty", "garbage"} THEN ErrorDecision
        ELSE IF resp.kind = "no_td" THEN ErrorDecision
        ELSE IF resp.action.t # "str" THEN ErrorDecision
        ELSE Validate(resp, stage, availableEquity, currentPrice)

-----------------------------------------------------------------------------
(* unnamed/part_003: the post-processing of the other copy of the service *)

\* finalMargin before the rescue: maxSafeMargin is 95% of the equity
Margin003(stage, availableEquity, confidence) ==
    JsMin(JsMul(JsMul(availableEquity, stage.risk_factor),
                JsDiv(confidence, Num(100))),
          JsMul(availableEquity, Rat(95, 100)))

\* the downgrades and the contract size in unnamed/part_003: the downgrade
\* for a contract size below 0.01 appends nothing to the reasoning
Finalize003(resp, action0, currentPrice, safeLeverage, confidence, finalMargin, positionValue) ==
    LET numContracts == Contracts(positionValue, currentPrice)
        base == [threw |-> FALSE, failed |-> FALSE,
                 stage_analysis |-> resp.stage_analysis,
                 action |-> action0, size |-> Undefined,
                 leverage |-> Undefined,
                 td |-> [action |-> resp.action,
                         confidence |-> resp.confidence,
                         leverage |-> resp.leverage,
                         profit_target |-> resp.profit_target,
                         stop_loss |-> resp.stop_loss],
                 notes |-> <<>>,
                 safeLeverage |-> safeLeverage, confidence |-> confidence,
                 finalMargin |-> finalMargin,
                 positionValue |-> positionValue,
                 numContracts |-> Undefined]
    IN  IF action0.s \in {"BUY", "SELL"}
        THEN IF JsLt(positionValue, Num(MIN_OPEN_VALUE))
             THEN [base EXCEPT !.action = Str("HOLD"), !.size = Str("0"),
                               !.notes = <<"value below minimum">>]
             ELSE IF JsLt(numContracts, Rat(1, 100))
                  THEN [base EXCEPT !.action = Str("HOLD"),
                                    !.size = Str("0"),
                                    !.numContracts = numContracts]
                  ELSE [base EXCEPT !.size = ToFixed2(numContracts),
                                    !.numContracts = numContracts,
                                    !.leverage = NumToString(safeLeverage)]
        ELSE [base EXCEPT !.size = Str("0"),
                          !.leverage = NumToString(safeLeverage)]

\* the rescue of unnamed/part_003
Rescued003(resp, currentPrice, safeLeverage, confidence, margin, value, rescue) ==
    Finalize003(resp, Str(ToUpperCase(resp.action.s)), currentPrice,
                safeLeverage, confidence,
                IF rescue THEN JsDiv(Num(MIN_OPEN_VALUE), safeLeverage)
                ELSE margin,
                IF rescue THEN Num(MIN_OPEN_VALUE) ELSE value)

Sized003(resp, availableEquity, currentPrice, safeLeverage, confidence, margin) ==
    Rescued003(resp, currentPrice, safeLeverage, confidence, margin,
               JsMul(margin, safeLeverage),
               Rescue(JsMul(margin, safeLeverage), availableEquity,
                      safeLeverage, confidence))

\* "Post-Processing & Validation" of unnamed/part_003
Validate003(resp, stage, availableEquity, currentPrice) ==
    Sized003(resp, availableEquity, currentPrice, SafeLeverage(resp, stage),
             Confidence(resp),
             Margin003(stage, availableEquity, Confidence(resp)))

-----------------------------------------------------------------------------
(* One call of getTradingDecision on arbitrary arguments *)

\* longest candle series passed to getTradingDecision
MaxCandles == 1

Keys == {"", " ", "sk-key"}

LastTokens == {Str("3000"), Str("0"), Str("-3000")}

CloseTokens == {Str("3000")}

RECURSIVE SeqsUpTo(_, _)
SeqsUpTo(S, n) ==
    IF n = 0 THEN {<<>>}
    ELSE LET shorter == SeqsUpTo(S, n - 1)
         IN  shorter \cup {Append(q, x) : q \in shorter, x \in S}

Markets ==
    [ticker : {TRUE}, last : LastTokens,
     candles15m : SeqsUpTo(CloseTokens, MaxCandles)]
    \cup [ticker : {FALSE}, last : {Undefined},
          candles15m : SeqsUpTo(CloseTokens, MaxCandles)]

TotalEqTokens == {Str("10"), Str("50"), Str("100")}

AvailEqTokens == {Str("-10"), Str("0"), Str("5"), Str("10"), Str("50")}

ActionTokens ==
    {Undefined, Str("BUY"), Str("sell"), Str("HOLD"), Str("CLOSE"),
     Str("UPDATE_TPSL"), Str("long"), Str(" buy ")}

ConfidenceTokens ==
    {Undefined, Str("abc"), Str("0"), Str("30"), Str("50"), Str("100"),
     Str("150"), Str("-50"), Str("80%")}

LeverageTokens ==
    {Undefined, Str("abc"), Str("0"), Str("-20"), Str("20"), Str("100")}

NoReply(kind) ==
    [kind |-> kind, stage_analysis |-> Undefined,
     action |-> Undefined, confidence |-> Undefined,
     leverage |-> Undefined, profit_target |-> Undefined,
     stop_loss |-> Undefined]

\* what the reasoning service can answer: a transport error, an empty text,
\* text that is not JSON, JSON without trading_decision, or a decision
SizerReplies ==
    {NoReply(k) : k \in {"error", "empty", "garbage", "no_td"}}
    \cup [kind : {"json"}, stage_analysis : {Str("stage 1")},
          action : ActionTokens,
          confidence : ConfidenceTokens, leverage : LeverageTokens,
          profit_target : {Undefined}, stop_loss : {Undefined}]

SizerCalls ==
    [file : {"services/aiService.ts"}, key : Keys, market : Markets,
     account : [totalEq : TotalEqTokens, availEq : AvailEqTokens,
                positions : {<<>>}],
     resp : SizerReplies]

\* Date.now() when the server starts
StartTime == 100000

\* server.ts: the state after the module has loaded
LoopInit ==
    /\ clock = StartTime
    /\ isRunning = FALSE
    /\ apiKey = ""
    /\ marketData = <<>>
    /\ accountData = <<>>
    /\ latestDecision = <<>>
    /\ logs = <<[type |-> "INFO", msg |-> ""]>>
    /\ lastAnalysisTime = 0
    /\ fetches = [market |-> 0, account |-> 0]
    /\ requests = 0
    /\ timers = <<>>
    /\ passes = <<>>

SizerInit ==
    /\ call \in SizerCalls
    /\ ret = <<>>
    /\ LoopInit

\* the call runs to its return or to its exception
SizerCall ==
    /\ ret = <<>>
    /\ ret' = <<getTradingDecision(call.key, call.market, call.account,
                                   call.resp)>>
    /\ UNCHANGED <<call, loopVars>>

SizerNext == SizerCall

SpecSizer == SizerInit /\ [][SizerNext]_vars

Returned == ret # <<>> /\ ~ret[1].threw

-----------------------------------------------------------------------------
(* One run of the post-processing of unnamed/part_003 on a parsed reply *)

PriceTokens003 == {Str("3000"), Str("200000"), Str("-3000")}

\* the replies that parse and carry an action
ParsedReplies == {r \in SizerReplies : r.kind = "json" /\ r.action.t = "str"}

AvailEqTokens003 == AvailEqTokens \cup {Str("5.5")}

Calls003 ==
    [file : {"unnamed/part_003"}, key : {"sk-key"},
     market : [ticker : {TRUE}, last : PriceTokens003, candles15m : {<<>>}],
     account : [totalEq : TotalEqTokens, availEq : AvailEqTokens003,
                positions : {<<>>}],
     resp : ParsedReplies]

Init003 ==
    /\ call \in Calls003
    /\ ret = <<>>
    /\ LoopInit

\* the post-processing runs on the parsed reply of the call
PostProcess003 ==
    /\ ret = <<>>
    /\ ret' = <<Validate003(call.resp,
                            StageOf(ParseFloat(call.account.totalEq)),
                            ParseFloat(call.account.availEq),
                            ParseFloat(call.market.last))>>
    /\ UNCHANGED <<call, loopVars>>

Next003 == PostProcess003

SpecSizer003 == Init003 /\ [][Next003]_vars

-----------------------------------------------------------------------------
(* Claims about getTradingDecision, under SpecSizer *)

IsOrder(dec) == dec.action.t = "str" /\ dec.action.s \in {"BUY", "SELL"}

IsSafeHold(dec) == dec.action = Str("HOLD") /\ dec.size = Str("0")

\* C1: a returned decision has action BUY or SELL only if its notional value
\* (final margin x leverage) is a defined number >= MIN_OPEN_VALUE.
C1_OrderHasMinNotional ==
    (Returned /\ IsOrder(ret[1])) =>
        /\ IsFinite(ret[1].positionValue)
        /\ JsGe(ret[1].positionValue, Num(MIN_OPEN_VALUE))

\* C3: in every returned decision the leverage used for sizing, and the
\* leverage reported, is > 0, and the confidence used for sizing is in
\* [0,100].
C3_NormalizedLeverageAndConfidence ==
    Returned =>
        /\ ~ret[1].failed =>
              /\ JsGt(ret[1].safeLeverage, Num(0))
              /\ JsGe(ret[1].confidence, Num(0))
              /\ JsGe(Num(100), ret[1].confidence)
        /\ ret[1].leverage.t = "str" =>
              JsGt(ParseFloat(ret[1].leverage), Num(0))

\* C7: with a non-empty API key getTradingDecision never raises, and on any
\* failure it returns action HOLD with size "0".
C7_NeverRaises ==
    (ret # <<>> /\ call.key # "") =>
        /\ ~ret[1].threw
        /\ ret[1].failed => IsSafeHold(ret[1])

RawIsOrder(c) ==
    /\ c.resp.kind = "json"
    /\ c.resp.action.t = "str"
    /\ ToUpperCase(c.resp.action.s) \in {"BUY", "SELL"}

\* C8: when available equity is zero or negative, every raw BUY or SELL is
\* returned as HOLD with size "0", whatever the leverage and confidence.
C8_NoEquityNoOrder ==
    (/\ Returned
     /\ ~JsGt(ParseFloat(call.account.availEq), Num(0))
     /\ RawIsOrder(call)) => IsSafeHold(ret[1])

BadPrice(c) ==
    \/ ~c.market.ticker
    \/ ~JsGt(ParseFloat(c.market.last), Num(0))

\* C9: when the last price is absent, zero or negative the returned decision
\* is HOLD with size "0", and no BUY/SELL is returned with a size that is
\* not a finite number >= 0.
C9_BadPriceForcesHold ==
    Returned =>
        /\ BadPrice(call) => IsSafeHold(ret[1])
        /\ IsOrder(ret[1]) =>
              /\ IsFinite(ParseFloat(ret[1].size))
              /\ JsGe(ParseFloat(ret[1].size), Num(0))

\* the call of the sizing example: available equity 50, stage 1, confidence
\* 100, leverage 20, price 3000
ExampleCall ==
    /\ call.key = "sk-key"
    /\ call.market.ticker /\ call.market.last = Str("3000")
    /\ call.account.totalEq = Str("10")
    /\ call.account.availEq = Str("50")
    /\ call.resp.kind = "json"
    /\ call.resp.action = Str("BUY")
    /\ call.resp.confidence = Str("100")
    /\ call.resp.leverage = Str("20")

\* the price the sizing divides by: the ticker's last price, 0 without one
PriceOf(market) ==
    IF market.ticker /\ Truthy(market.last) THEN ParseFloat(market.last)
    ELSE Num(0)

\* C14: the size of every returned BUY or SELL is
\* floor(notional / (contract value x price) x 100) / 100 with two decimals,
\* the notional being final margin x leverage; the example call is sized
\* with margin 40 and notional 800 to "2.66"
C14_SizeIsFlooredContracts ==
    (Returned /\ IsOrder(ret[1])) =>
        /\ ret[1].size =
              ToFixed2(JsDiv(JsFloor(JsMul(
                  JsDiv(JsMul(ret[1].finalMargin, ret[1].safeLeverage),
                        JsMul(Rat(1, 10), PriceOf(call.market))),
                  Num(100))), Num(100)))
        /\ ExampleCall =>
              /\ ret[1].finalMargin = Num(40)
              /\ ret[1].positionValue = Num(800)
              /\ ret[1].size = Str("2.66")

\* the example call has returned a BUY of 2.66 contracts
C14_Witness ==
    /\ Returned
    /\ ExampleCall
    /\ ret[1].action = Str("BUY")
    /\ ret[1].size = Str("2.66")

\* C18: every returned decision whose action is not BUY or SELL, a BUY or
\* SELL downgraded to HOLD included, has size "0" and reports the leverage
\* the sizing used
C18_NonOrderReportsLeverage ==
    (Returned /\ ~IsOrder(ret[1])) =>
        /\ ret[1].size = Str("0")
        /\ ~ret[1].failed =>
              ret[1].leverage = NumToString(ret[1].safeLeverage)

\* the sizing has run on the reply
SizerRan == Returned /\ ~ret[1].failed

\* the fraction of the available equity the called copy of the sizer caps
\* the margin at
SafetyFactor ==
    IF call.file = "unnamed/part_003" THEN Rat(95, 100) ELSE Rat(90, 100)

\* the margin and the notional computed before the rescue
ComputedMargin ==
    JsMin(JsMul(JsMul(ParseFloat(call.account.availEq),
                      StageOf(ParseFloat(call.account.totalEq)).risk_factor),
                JsDiv(ret[1].confidence, Num(100))),
          JsMul(ParseFloat(call.account.availEq), SafetyFactor))

ComputedNotional == JsMul(ComputedMargin, ret[1].safeLeverage)

\* capped at the safety factor the available equity exceeds a notional of
\* 100 at the leverage used
CanSupportMinimum ==
    JsGt(JsMul(JsMul(ParseFloat(call.account.availEq), SafetyFactor),
               ret[1].safeLeverage),
         Num(100))

\* C20: when the computed notional is < 100, the confidence is >= 40 and the
\* capped account can support 100, the notional becomes exactly 100 and the
\* final margin 100 / leverage; otherwise both stay as computed
C20_RescueToMinimum ==
    SizerRan =>
        IF /\ JsLt(ComputedNotional, Num(100))
           /\ JsGe(ret[1].confidence, Num(40))
           /\ CanSupportMinimum
        THEN /\ ret[1].positionValue = Num(100)
             /\ ret[1].finalMargin = JsDiv(Num(100), ret[1].safeLeverage)
        ELSE /\ ret[1].positionValue = ComputedNotional
             /\ ret[1].finalMargin = ComputedMargin

\* a notional of 80 at confidence 50 has been raised to 100, margin 5
C20_Witness ==
    /\ SizerRan
    /\ ComputedNotional = Num(80)
    /\ ret[1].confidence = Num(50)
    /\ ret[1].safeLeverage = Num(20)
    /\ ret[1].positionValue = Num(100)
    /\ ret[1].finalMargin = Num(5)

\* the sizing turned a BUY or SELL of the reply into HOLD
Downgraded == SizerRan /\ RawIsOrder(call) /\ ret[1].action = Str("HOLD")

\* C21: every BUY or SELL the sizing downgrades to HOLD, for a notional
\* below the minimum or for a contract size below 0.01, has size "0" and a
\* note about the downgrade appended to its reasoning
C21_DowngradeLeavesNote ==
    /\ Downgraded => ret[1].size = Str("0") /\ Len(ret[1].notes) = 1
    /\ (SizerRan /\ ~Downgraded) => ret[1].notes = <<>>

\* a BUY or SELL worth at least the minimum was downgraded for its contract
\* size
C21_Witness ==
    /\ Downgraded
    /\ JsGe(ret[1].positionValue, Num(MIN_OPEN_VALUE))
    /\ ret[1].notes = <<"contracts below 0.01">>

\* availableEquity * SAFETY_FACTOR
SafetyCap == JsMul(ParseFloat(call.account.availEq), SafetyFactor)

\* C23: the final margin of every returned BUY or SELL with a leverage > 0,
\* which is its notional / leverage, is at most the safety cap, also when the
\* rescue has raised it
C23_MarginWithinSafetyCap ==
    (Returned /\ IsOrder(ret[1]) /\ JsGt(ret[1].safeLeverage, Num(0))) =>
        /\ JsGe(SafetyCap, ret[1].finalMargin)
        /\ JsGe(SafetyCap,
                JsDiv(ret[1].positionValue, ret[1].safeLeverage))

-----------------------------------------------------------------------------
(* One call of an indicator function or of the stage selection *)

\* longest price series drawn
MaxSeries == 4

\* longest lookback period drawn
MaxPeriod == 3

PriceValues == {Num(1), Num(2), Num(3), Num(4)}

Series == SeqsUpTo(PriceValues, MaxSeries)

\* 1, 2, ..., n and n, ..., 2, 1
RampUp(n) == [i \in 1..n |-> Num(i)]

RampDown(n) == [i \in 1..n |-> Num(n + 1 - i)]

\* n candles closing at the same price
Flat(n) == [i \in 1..n |-> Num(3000)]

EquityValues ==
    {Num(-10), Num(0), Num(19), Rat(199, 10), Num(20), Num(50),
     Rat(799, 10), Num(80), Num(100), NaN}

PureCall(fn, prices, period, x) ==
    [fn |-> fn, prices |-> prices, period |-> period, x |-> x]

PureCalls ==
    {PureCall(fn, prices, period, Undefined) :
        fn \in {"calcRSI", "calcRSISmoothed", "calcEMA", "calcSMA"},
        prices \in Series, period \in 1..MaxPeriod}
    \cup {PureCall(fn, prices, 7, Undefined) :
             fn \in {"calcRSI", "calcRSISmoothed"},
             prices \in {RampUp(8), RampDown(8), RampUp(9), RampDown(9)}}
    \cup {PureCall("calcMACD", prices, 26, Undefined) :
             prices \in Series \cup {Flat(26), Flat(27)}}
    \cup {PureCall("StageOf", <<>>, 0, x) : x \in EquityValues}

PureInit ==
    /\ call \in PureCalls
    /\ ret = <<>>
    /\ LoopInit

\* the function named by the call returns
Returns(fn, result) ==
    /\ call.fn = fn
    /\ ret = <<>>
    /\ ret' = <<result>>
    /\ UNCHANGED <<call, loopVars>>

RsiCall == Returns("calcRSI", calcRSI(call.prices, call.period))

RsiSmoothedCall ==
    Returns("calcRSISmoothed", calcRSISmoothed(call.prices, call.period))

EmaCall == Returns("calcEMA", calcEMA(call.prices, call.period))

SmaCall == Returns("calcSMA", calcSMA(call.prices, call.period))

MacdCall == Returns("calcMACD", calcMACD(call.prices))

StageCall == Returns("StageOf", StageOf(call.x))

PureNext ==
    \/ RsiCall
    \/ RsiSmoothedCall
    \/ EmaCall
    \/ SmaCall
    \/ MacdCall
    \/ StageCall

SpecPure == PureInit /\ [][PureNext]_vars

\* the call of fn has returned
Done(fn) == call.fn = fn /\ ret # <<>>

\* x < k and x >= k for a number x = n/d and an integer k
Below(x, k) == x.n < k * x.d

AtLeast(x, k) == x.n >= k * x.d

\* C12: the stage selection returns exactly one stage for every equity:
\* stage 1 below 20, stage 2 from 20 to below 80, stage 3 from 80 on
C12_StageBrackets ==
    Done("StageOf") =>
        /\ ret[1] \in {STRATEGY_STAGES.STAGE_1, STRATEGY_STAGES.STAGE_2,
                       STRATEGY_STAGES.STAGE_3}
        /\ call.x.t = "num" =>
              /\ Below(call.x, 20) => ret[1].name = "STAGE_1"
              /\ AtLeast(call.x, 20) /\ Below(call.x, 80)
                    => ret[1].name = "STAGE_2"
              /\ AtLeast(call.x, 80) => ret[1].name = "STAGE_3"

\* the boundary 20 has been classified, as stage 2
C12_Witness ==
    Done("StageOf") /\ call.x = Num(20) /\ ret[1].name = "STAGE_2"

StrictlyIncreasing(prices) ==
    \A i \in 1..(Len(prices) - 1) :
        prices[i].n * prices[i + 1].d < prices[i + 1].n * prices[i].d

StrictlyDecreasing(prices) ==
    \A i \in 1..(Len(prices) - 1) :
        prices[i].n * prices[i + 1].d > prices[i + 1].n * prices[i].d

\* the average loss the returned RSI was computed from
AvgLoss ==
    IF call.fn = "calcRSI" THEN RsiAverages(call.prices, call.period).losses
    ELSE SmoothedAverages(call.prices, call.period).losses

\* C13: on a series longer than the period both calcRSI functions return 100
\* when it is strictly increasing, and 0 from an average loss > 0 when it is
\* strictly decreasing
C13_MonotoneRsi ==
    (Done("calcRSI") \/ Done("calcRSISmoothed"))
        /\ Len(call.prices) > call.period
    => /\ StrictlyIncreasing(call.prices) => ret[1] = Num(100)
       /\ StrictlyDecreasing(call.prices)
             => ret[1] = Num(0) /\ AvgLoss.t = "num" /\ AvgLoss.n > 0

\* the smoothed RSI of 4, 3, 2, 1 over period 2 has returned
C13_Witness ==
    /\ Done("calcRSISmoothed")
    /\ call.prices = RampDown(4)
    /\ call.period = 2
    /\ ret[1] = Num(0)

\* the lookback of the called indicator
Lookback ==
    IF call.fn \in {"calcRSI", "calcRSISmoothed"} THEN call.period + 1
    ELSE IF call.fn = "calcMACD" THEN 26
    ELSE call.period

\* C15: on a series shorter than its lookback, the empty series included,
\* every indicator function returns a defined number
C15_ShortSeriesDefined ==
    ret # <<>> /\ call.fn # "StageOf" /\ Len(call.prices) < Lookback
    => IF call.fn = "calcMACD"
       THEN ret[1].macd.t = "num" /\ ret[1].signal.t = "num"
            /\ ret[1].hist.t = "num"
       ELSE ret[1].t = "num"

StageRecords ==
    <<STRATEGY_STAGES.STAGE_1, STRATEGY_STAGES.STAGE_2,
      STRATEGY_STAGES.STAGE_3>>

\* a leverage > 0 and a risk factor in [0, 1]
CapAndRiskDefined(stage) ==
    /\ stage.leverage.t = "num"
    /\ stage.leverage.n > 0
    /\ stage.risk_factor.t = "num"
    /\ AtLeast(stage.risk_factor, 0)
    /\ ~AtLeast(stage.risk_factor, 1) \/ stage.risk_factor = Num(1)

\* C19: the stage record selected for an account has a leverage > 0 and a
\* risk factor in [0, 1], and neither grows from stage 1 to stage 3
C19_StagesDeRisk ==
    Done("StageOf") =>
        /\ CapAndRiskDefined(ret[1])
        /\ \A i \in 1..2 :
              /\ JsGe(StageRecords[i].leverage, StageRecords[i + 1].leverage)
              /\ JsGe(StageRecords[i].risk_factor,
                      StageRecords[i + 1].risk_factor)

-----------------------------------------------------------------------------
(* server.ts: the trading loop *)

POLL_INTERVAL == 5000

ANALYSIS_COOLDOWN == 15000

LOG_CAP == 200

\* number of timer ticks modelled
MaxTicks == 3

\* number of toggle and config requests modelled
MaxRequests == 3

\* an addLog that keeps the first LOG_CAP entries
addLogKeepingOldest(l, type, msg) ==
    LET pushed == Append(l, [type |-> type, msg |-> msg])
    IN  IF Len(pushed) > LOG_CAP
        THEN SubSeq(pushed, 1, LOG_CAP)
        ELSE pushed

\* addLog: push, then keep the last LOG_CAP entries
addLog(l, type, msg) ==
    LET pushed == Append(l, [type |-> type, msg |-> msg])
    IN  IF Len(pushed) > LOG_CAP
        THEN SubSeq(pushed, Len(pushed) - LOG_CAP + 1, Len(pushed))
        ELSE pushed

RECURSIVE addLogs(_, _)
addLogs(l, entries) ==
    IF entries = <<>> THEN l
    ELSE addLogs(addLog(l, entries[1].type, entries[1].msg), Tail(entries))

\* a log entry of the loop: its type; the message text is left out
Entry(type, msg) == [type |-> type, msg |-> ""]

\* accountData.positions.find(p => p.instId === INSTRUMENT_ID): the first
\* match, <<>> for undefined
RECURSIVE FindPosition(_)
FindPosition(positions) ==
    IF positions = <<>> THEN <<>>
    ELSE IF positions[1].instId = INSTRUMENT_ID THEN <<positions[1]>>
    ELSE FindPosition(Tail(positions))

\* p.toString()
ToStringOf(p) == IF IsNumeric(p) THEN NumToString(p) ELSE p

\* isValid of the UPDATE_TPSL branch
isValid(p) ==
    IF p.t \in {"undefined", "null"} \/ p = Str("") THEN FALSE
    ELSE LET val == ParseFloat(ToStringOf(p))
         IN  ~IsNaN(val) /\ JsGt(val, Num(0))

NoArg == Undefined

ExchangeCall(op, posSide, a1, a2) ==
    [op |-> op, posSide |-> posSide, a1 |-> a1, a2 |-> a2,
     result |-> "pending"]

\* a rolling logic that does not look at the action
RollingAfterAnyAction(dec, primary) ==
    IF primary # <<>>
          /\ JsGe(JsMul(ParseFloat(primary[1].uplRatio), Num(100)), Num(50))
    THEN [entries |-> <<Entry("SUCCESS", "rolling")>>,
          exchange |->
            <<ExchangeCall("addMargin", primary[1].posSide,
                  ToFixed2(JsMul(ParseFloat(primary[1].upl), Rat(1, 2))),
                  NoArg)>>]
    ELSE [entries |-> <<>>, exchange |-> <<>>]

\* the rolling logic after the action has been executed: the log entries it
\* appends and the exchange call it makes (<<>>: none)
Rolling(dec, primary) ==
    IF dec.action = Str("HOLD") /\ primary # <<>>
    THEN LET uplRatio == JsMul(ParseFloat(primary[1].uplRatio), Num(100))
         IN  IF JsGe(uplRatio, Num(50))
             THEN [entries |-> <<Entry("SUCCESS", "rolling")>>,
                   exchange |->
                     <<ExchangeCall("addMargin", primary[1].posSide,
                           ToFixed2(JsMul(ParseFloat(primary[1].upl),
                                          Rat(1, 2))),
                           NoArg)>>]
             ELSE [entries |-> <<>>, exchange |-> <<>>]
    ELSE [entries |-> <<>>, exchange |-> <<>>]

\* "Execute Actions": the branch on decision.action, up to its exchange call
Primary(dec, primary) ==
    IF dec.action = Str("UPDATE_TPSL")
    THEN IF primary # <<>>
            /\ (isValid(dec.td.stop_loss) \/ isValid(dec.td.profit_target))
         THEN IF primary[1].posSide = "net"
              THEN [entries |-> <<Entry("WARNING", "net mode")>>,
                    exchange |-> <<>>]
              ELSE [entries |-> <<>>,
                    exchange |->
                      <<ExchangeCall("updatePositionTPSL",
                            primary[1].posSide,
                            IF isValid(dec.td.stop_loss)
                            THEN ToStringOf(dec.td.stop_loss) ELSE NoArg,
                            IF isValid(dec.td.profit_target)
                            THEN ToStringOf(dec.td.profit_target)
                            ELSE NoArg)>>]
         ELSE [entries |-> <<>>, exchange |-> <<>>]
    ELSE IF dec.action # Str("HOLD")
    THEN [entries |-> <<>>,
          exchange |-> <<ExchangeCall("executeOrder", "", dec.action,
                                      dec.size)>>]
    ELSE [entries |-> <<>>, exchange |-> <<>>]

\* the action and, when the action awaits no exchange call, the rolling logic
\* that follows it at once
Execute(dec, primary) ==
    LET first == Primary(dec, primary)
        then == Rolling(dec, primary)
    IN  IF first.exchange # <<>> THEN first
        ELSE [entries |-> first.entries \o then.entries,
              exchange |-> then.exchange]

\* the analysis callback from the result of getTradingDecision to its first
\* exchange call or its end
AfterDecision(dec, account) ==
    IF dec.threw
    THEN [latest |-> <<>>, primary |-> <<>>,
          entries |-> <<Entry("ERROR", "strategy")>>, exchange |-> <<>>]
    ELSE IF dec.stage_analysis.t # "str"
    THEN [latest |-> <<dec>>, primary |-> <<>>,
          entries |-> <<Entry("ERROR", "strategy")>>, exchange |-> <<>>]
    ELSE LET primary == FindPosition(account.positions)
             ex == Execute(dec, primary)
         IN  [latest |-> <<dec>>, primary |-> primary,
              entries |-> <<Entry("INFO", "decision")>> \o ex.entries,
              exchange |-> ex.exchange]

\* a catch block that would attempt the failed call again
CatchExchangeRetrying(op) ==
    [entries |-> <<Entry("ERROR", op)>>, retry |-> TRUE]

\* the catch block around an exchange call
CatchExchange(op) ==
    [entries |-> <<Entry("ERROR", op)>>, retry |-> FALSE]

\* the log entry after an exchange call that returned
ExchangeSucceeded(op) ==
    IF op = "updatePositionTPSL" THEN Entry("SUCCESS", op)
    ELSE Entry("TRADE", op)

Types(entries) == [i \in 1..Len(entries) |-> entries[i].type]

\* the keys posted to /api/config
LoopKeys == {"sk-key"}

FullMarket ==
    [ticker |-> TRUE, last |-> Str("3000"), candles15m |-> <<Str("3000")>>]

LoopMarkets == {FullMarket}

Position(instId, posSide, uplRatio) ==
    [instId |-> instId, posSide |-> posSide, pos |-> Str("1"),
     upl |-> Str("4"), uplRatio |-> Str(uplRatio)]

Account(positions) ==
    [totalEq |-> Str("10"), availEq |-> Str("50"), positions |-> positions]

LoopAccounts == {Account(<<>>)}

Reply(action, sl, tp) ==
    [kind |-> "json", stage_analysis |-> Str("stage 1"),
     action |-> Str(action), confidence |-> Str("100"),
     leverage |-> Str("20"), profit_target |-> tp, stop_loss |-> sl]

LoopReplies == {NoReply("error"), Reply("BUY", Undefined, Undefined)}

\* setInterval(runTradingLoop, 5000): POLL_INTERVAL ms pass and a new
\* invocation starts to fetch; `ticks` bounds the run
TickUpTo(ticks) ==
    /\ clock < StartTime + ticks * POLL_INTERVAL
    /\ clock' = clock + POLL_INTERVAL
    /\ fetches' = [fetches EXCEPT !.market = @ + 1]
    /\ UNCHANGED <<call, ret, isRunning, apiKey, marketData, accountData,
                   latestDecision, logs, lastAnalysisTime, requests, timers,
                   passes>>

\* fetchMarketData resolves
FetchMarketReturns(m) ==
    /\ fetches.market > 0
    /\ marketData' = <<m>>
    /\ fetches' = [market |-> fetches.market - 1,
                   account |-> fetches.account + 1]
    /\ UNCHANGED <<call, ret, clock, isRunning, apiKey, accountData,
                   latestDecision, logs, lastAnalysisTime, requests, timers,
                   passes>>

\* fetchMarketData rejects
FetchMarketFails ==
    /\ fetches.market > 0
    /\ fetches' = [fetches EXCEPT !.market = @ - 1]
    /\ logs' = IF isRunning THEN addLogs(logs, <<Entry("ERROR", "sync")>>)
               ELSE logs
    /\ UNCHANGED <<call, ret, clock, isRunning, apiKey, marketData,
                   accountData, latestDecision, lastAnalysisTime, requests,
                   timers, passes>>

\* fetchAccountData resolves and runTradingLoop runs to its end: the callback
\* is scheduled when the engine runs and the cooldown has passed
FetchAccountReturns(a) ==
    /\ fetches.account > 0
    /\ accountData' = <<a>>
    /\ fetches' = [fetches EXCEPT !.account = @ - 1]
    /\ timers' = IF isRunning /\ ~(clock - lastAnalysisTime < ANALYSIS_COOLDOWN)
                 THEN Append(timers, clock)
                 ELSE timers
    /\ UNCHANGED <<call, ret, clock, isRunning, apiKey, marketData,
                   latestDecision, logs, lastAnalysisTime, requests, passes>>

\* fetchAccountData rejects
FetchAccountFails ==
    /\ fetches.account > 0
    /\ fetches' = [fetches EXCEPT !.account = @ - 1]
    /\ logs' = IF isRunning THEN addLogs(logs, <<Entry("ERROR", "sync")>>)
               ELSE logs
    /\ UNCHANGED <<call, ret, clock, isRunning, apiKey, marketData,
                   accountData, latestDecision, lastAnalysisTime, requests,
                   timers, passes>>

NewPass(now, key, after, started) ==
    [pc |-> IF after.exchange # <<>> THEN "exchange" ELSE "done",
     now |-> now,
     args |-> <<>>,
     key |-> key,
     decision |-> after.latest,
     primary |-> after.primary,
     calls |-> after.exchange,
     logged |-> Types(<<started>> \o after.entries)]

\* the callback has run from its start to its first exchange call or its end
Begin(now, started, after) ==
    /\ logs' = addLogs(logs, <<started>> \o after.entries)
    /\ passes' = Append(passes, NewPass(now, apiKey, after, started))
    /\ latestDecision' = IF after.latest # <<>> THEN after.latest
                         ELSE latestDecision

\* the setTimeout callback runs up to its first await that needs I/O
TimerFires ==
    /\ timers # <<>>
    /\ timers' = Tail(timers)
    /\ lastAnalysisTime' = Head(timers)
    /\ IF marketData = <<>> \/ accountData = <<>>
       THEN Begin(Head(timers), Entry("INFO", "analysing"),
                  [latest |-> <<>>, primary |-> <<>>, entries |-> <<>>,
                   exchange |-> <<>>])
       ELSE IF NeedsReply(apiKey, marketData[1])
       THEN /\ logs' = addLogs(logs, <<Entry("INFO", "analysing")>>)
            /\ passes' = Append(passes,
                  [pc |-> "deciding", now |-> Head(timers),
                   args |-> <<marketData[1], accountData[1]>>,
                   key |-> apiKey,
                   decision |-> <<>>, primary |-> <<>>, calls |-> <<>>,
                   logged |-> <<"INFO">>])
            /\ UNCHANGED latestDecision
       ELSE \E dec \in {getTradingDecision(apiKey, marketData[1],
                                            accountData[1],
                                            NoReply("error"))} :
              \E after \in {AfterDecision(dec, accountData[1])} :
                 Begin(Head(timers), Entry("INFO", "analysing"), after)
    /\ UNCHANGED <<call, ret, clock, isRunning, apiKey, marketData,
                   accountData, fetches, requests>>

\* pass i has run from the return of getTradingDecision to its first exchange
\* call or its end
Resume(i, after) ==
    /\ logs' = addLogs(logs, after.entries)
    /\ latestDecision' = IF after.latest # <<>> THEN after.latest
                         ELSE latestDecision
    /\ passes' = [passes EXCEPT ![i] =
          [@ EXCEPT !.pc = IF after.exchange # <<>> THEN "exchange"
                           ELSE "done",
                    !.args = <<>>,
                    !.decision = after.latest,
                    !.primary = after.primary,
                    !.calls = after.exchange,
                    !.logged = @ \o Types(after.entries)]]

\* the reasoning service answers pass i: getTradingDecision returns and the
\* callback runs on to its first exchange call or its end
ReplyArrives(i, resp) ==
    /\ passes[i].pc = "deciding"
    /\ \E dec \in {getTradingDecision(passes[i].key, passes[i].args[1],
                                        passes[i].args[2], resp)} :
          \E after \in {AfterDecision(dec, accountData[1])} :
             Resume(i, after)
    /\ UNCHANGED <<call, ret, clock, isRunning, apiKey, marketData,
                   accountData, lastAnalysisTime, fetches, requests, timers>>

\* what follows the exchange call c of pass p once it has returned or thrown:
\* the same call again if the catch block retried, else the rolling logic
\* after the action's own call
Following(p, c, ok, caught) ==
    IF ~ok /\ caught.retry
    THEN [entries |-> <<>>,
          exchange |-> <<[c EXCEPT !.result = "pending"]>>]
    ELSE IF c.op = "addMargin"
    THEN [entries |-> <<>>, exchange |-> <<>>]
    ELSE Rolling(p.decision[1], p.primary)

\* pass i goes on after an exchange call
Settle(i, settled, own, then) ==
    /\ logs' = addLogs(logs, own \o then.entries)
    /\ passes' = [passes EXCEPT ![i] =
          [@ EXCEPT !.pc = IF then.exchange # <<>> THEN "exchange"
                           ELSE "done",
                    !.calls = settled \o then.exchange,
                    !.logged = @ \o Types(own \o then.entries)]]

\* the exchange call of pass i returns (ok) or throws: the entry is logged,
\* and after the action's own call the rolling logic runs
ExchangeReturns(i, ok) ==
    /\ passes[i].pc = "exchange"
    /\ Settle(i,
              [passes[i].calls EXCEPT ![Len(passes[i].calls)].result =
                  IF ok THEN "ok" ELSE "failed"],
              IF ok
              THEN <<ExchangeSucceeded(
                         passes[i].calls[Len(passes[i].calls)].op)>>
              ELSE CatchExchange(
                       passes[i].calls[Len(passes[i].calls)].op).entries,
              Following(passes[i], passes[i].calls[Len(passes[i].calls)], ok,
                        CatchExchange(
                            passes[i].calls[Len(passes[i].calls)].op)))
    /\ UNCHANGED <<call, ret, clock, isRunning, apiKey, marketData,
                   accountData, latestDecision, lastAnalysisTime, fetches,
                   requests, timers>>

\* POST /api/toggle
Toggle(running) ==
    /\ requests < MaxRequests
    /\ requests' = requests + 1
    /\ isRunning' = running
    /\ logs' = addLogs(logs, <<Entry("INFO", "toggle")>>)
    /\ UNCHANGED <<call, ret, clock, apiKey, marketData, accountData,
                   latestDecision, lastAnalysisTime, fetches, timers, passes>>

\* POST /api/config
Config(key) ==
    /\ requests < MaxRequests
    /\ requests' = requests + 1
    /\ apiKey' = key
    /\ logs' = addLogs(logs, <<Entry("INFO", "config")>>)
    /\ UNCHANGED <<call, ret, clock, isRunning, marketData, accountData,
                   latestDecision, lastAnalysisTime, fetches, timers, passes>>

Tick == TickUpTo(MaxTicks)

Init ==
    /\ call = <<>>
    /\ ret = <<>>
    /\ LoopInit

Next ==
    \/ Tick
    \/ \E m \in LoopMarkets : FetchMarketReturns(m)
    \/ FetchMarketFails
    \/ \E a \in LoopAccounts : FetchAccountReturns(a)
    \/ FetchAccountFails
    \/ TimerFires
    \/ \E i \in 1..Len(passes), resp \in LoopReplies : ReplyArrives(i, resp)
    \/ \E i \in 1..Len(passes), ok \in BOOLEAN : ExchangeReturns(i, ok)
    \/ \E running \in BOOLEAN : Toggle(running)
    \/ \E key \in LoopKeys : Config(key)

Spec == Init /\ [][Next]_vars

-----------------------------------------------------------------------------
(* The loop of a configured, running engine, on a wide range of snapshots *)
(* and replies                                                            *)

\* number of timer ticks modelled
RouterTicks == 2

RouterMarkets ==
    {FullMarket, [FullMarket EXCEPT !.candles15m = <<>>]}

RouterAccounts ==
    {Account(<<>>),
     Account(<<Position(INSTRUMENT_ID, "net", "0.6")>>),
     Account(<<Position(INSTRUMENT_ID, "long", "0.6")>>),
     Account(<<Position("BTC-USDT-SWAP", "long", "0.6"),
               Position(INSTRUMENT_ID, "long", "0.1")>>)}

StopLossTokens ==
    {Undefined, Null, Str(""), Str("0"), Str("abc"), Str("2900"),
     Str("Infinity"), Num(2900), Num(0)}

ProfitTargetTokens == {Undefined, Str("0"), Str("3100"), Str("Infinity")}

RouterReplies ==
    {NoReply("error")}
    \cup {Reply(a, Undefined, Undefined) :
             a \in {"BUY", "HOLD", "CLOSE", "long"}}
    \cup {[Reply(a, Undefined, Undefined)
             EXCEPT !.stage_analysis = Undefined] : a \in {"BUY", "HOLD"}}
    \cup {Reply("UPDATE_TPSL", sl, tp) :
             sl \in StopLossTokens, tp \in ProfitTargetTokens}

\* the state of Spec after Config("sk-key") and Toggle(TRUE)
RouterInit ==
    /\ call = <<>>
    /\ ret = <<>>
    /\ clock = StartTime
    /\ isRunning = TRUE
    /\ apiKey = "sk-key"
    /\ marketData = <<>>
    /\ accountData = <<>>
    /\ latestDecision = <<>>
    /\ logs = <<Entry("INFO", "init"), Entry("INFO", "config"),
                Entry("INFO", "toggle")>>
    /\ lastAnalysisTime = 0
    /\ fetches = [market |-> 0, account |-> 0]
    /\ requests = 2
    /\ timers = <<>>
    /\ passes = <<>>

RouterTick == TickUpTo(RouterTicks)

RouterNext ==
    \/ RouterTick
    \/ \E m \in RouterMarkets : FetchMarketReturns(m)
    \/ FetchMarketFails
    \/ \E a \in RouterAccounts : FetchAccountReturns(a)
    \/ FetchAccountFails
    \/ TimerFires
    \/ \E i \in 1..Len(passes), resp \in RouterReplies :
          ReplyArrives(i, resp)
    \/ \E i \in 1..Len(passes), ok \in BOOLEAN : ExchangeReturns(i, ok)

SpecRouter == RouterInit /\ [][RouterNext]_vars

-----------------------------------------------------------------------------
(* Properties of the loop *)

ActionTokenSet == {"BUY", "SELL", "HOLD", "CLOSE", "UPDATE_TPSL"}

\* the raw token is one of the five after upper-casing and trimming
Recognized(raw) ==
    raw.t = "str" /\ ToUpperCase(Trim(raw.s)) \in ActionTokenSet

Ops(p) == {p.calls[c].op : c \in 1..Len(p.calls)}

\* the passes that received a reply and got a decision from it
Decided == {i \in 1..Len(passes) : passes[i].decision # <<>>}

\* C2: a decision whose raw action token is not BUY, SELL, HOLD, CLOSE or
\* UPDATE_TPSL after upper-casing and trimming is returned as HOLD with a
\* note, and the pass that got it makes no executeOrder call
C2_UnrecognizedTokenHolds ==
    \A i \in Decided :
        LET p == passes[i]
            dec == p.decision[1]
        IN  ~Recognized(dec.td.action)
            => /\ dec.action = Str("HOLD")
               /\ dec.notes # <<>>
               /\ "executeOrder" \notin Ops(p)

InProgress == {i \in 1..Len(passes) : passes[i].pc \in {"deciding", "exchange"}}

\* C4: at most one analysis pass is between its call of getTradingDecision
\* and the end of its execution dispatch
C4_OnePassInProgress == Cardinality(InProgress) <= 1

\* the finished passes that resolved to UPDATE_TPSL on a net position
NetUpdates ==
    {i \in Decided :
        /\ passes[i].pc = "done"
        /\ passes[i].decision[1].action = Str("UPDATE_TPSL")
        /\ passes[i].primary # <<>>
        /\ passes[i].primary[1].posSide = "net"}

Logged(p, type) == \E k \in 1..Len(p.logged) : p.logged[k] = type

\* C5: a pass that resolved to UPDATE_TPSL on a net position logged a
\* WARNING and made no exchange call, whatever stop-loss and take-profit it
\* proposed
C5_NetUpdateWarnsWithoutCall ==
    \A i \in NetUpdates :
        Logged(passes[i], "WARNING") /\ passes[i].calls = <<>>

\* the proposed value parses to a finite number greater than 0
FinitePositive(v) ==
    /\ v.t \notin {"undefined", "null"}
    /\ v # Str("")
    /\ LET val == ParseFloat(ToStringOf(v))
       IN  val.t = "num" /\ JsGt(val, Num(0))

\* C6: in every updatePositionTPSL call the stop-loss and the take-profit
\* argument is undefined unless the proposed value parses to a finite number
\* greater than 0
C6_OnlyFinitePositiveForwarded ==
    \A i \in Decided :
        \A c \in 1..Len(passes[i].calls) :
            LET call_ == passes[i].calls[c]
                td == passes[i].decision[1].td
            IN  call_.op = "updatePositionTPSL"
                => /\ (call_.a1 # NoArg => FinitePositive(td.stop_loss))
                   /\ (call_.a2 # NoArg => FinitePositive(td.profit_target))

Count(seq, x) == Cardinality({k \in 1..Len(seq) : seq[k] = x})

FailedCalls(p) == {c \in 1..Len(p.calls) : p.calls[c].result = "failed"}

\* C10: a failed exchange call left an ERROR entry in the log of its pass,
\* was not attempted again in that pass, and the timer can still tick
C10_ExchangeFailureContained ==
    \A i \in 1..Len(passes) :
        LET p == passes[i]
        IN  FailedCalls(p) # {}
            => /\ Count(p.logged, "ERROR") >= Cardinality(FailedCalls(p))
               /\ \A c \in FailedCalls(p) :
                     \A d \in 1..Len(p.calls) :
                         d > c => p.calls[d].op # p.calls[c].op
               /\ (clock < StartTime + RouterTicks * POLL_INTERVAL
                     => ENABLED RouterTick)

\* a pass whose exchange call failed has ended while the timer has ticks left
C10_Witness ==
    \E i \in 1..Len(passes) :
        /\ FailedCalls(passes[i]) # {}
        /\ passes[i].pc = "done"
        /\ Logged(passes[i], "ERROR")
        /\ clock < StartTime + RouterTicks * POLL_INTERVAL

\* the passes whose reasoning-service call failed: getTradingDecision
\* returned the decision of its catch block
FailedReasoning ==
    {i \in Decided : passes[i].decision[1].failed}

\* C11: a pass whose reasoning-service call failed makes no exchange call
\* and, once it has ended, has logged an ERROR entry
C11_FailedReasoningAborts ==
    \A i \in FailedReasoning :
        /\ passes[i].calls = <<>>
        /\ (passes[i].pc = "done" => Logged(passes[i], "ERROR"))

\* C16: a pass that resolved to UPDATE_TPSL does not call
\* updatePositionTPSL when neither the proposed stop-loss nor the proposed
\* take-profit is a finite number > 0, and makes no exchange call at all
\* without a primary position
C16_InvalidLevelsSkipUpdate ==
    \A i \in Decided :
        passes[i].decision[1].action = Str("UPDATE_TPSL")
        => /\ (/\ ~FinitePositive(passes[i].decision[1].td.stop_loss)
               /\ ~FinitePositive(passes[i].decision[1].td.profit_target))
              => "updatePositionTPSL" \notin Ops(passes[i])
           /\ passes[i].primary = <<>> => passes[i].calls = <<>>

\* pass i gets its decision in this step
Decides(i) ==
    /\ i \in 1..Len(passes')
    /\ passes'[i].decision # <<>>
    /\ i > Len(passes) \/ passes[i].decision = <<>>

\* the primary position of the account snapshot in force
PrimaryPosition == FindPosition(accountData[1].positions)

\* a primary position exists and its unrealized-P&L ratio is >= 50%
RollingDue ==
    /\ PrimaryPosition # <<>>
    /\ JsGe(JsMul(ParseFloat(PrimaryPosition[1].uplRatio), Num(100)),
            Num(50))

\* the calls of addMargin among the calls
MarginCalls(calls) == {c \in 1..Len(calls) : calls[c].op = "addMargin"}

\* C17: the pass that gets its decision calls addMargin if and only if the
\* action is HOLD, a primary position exists and its unrealized-P&L ratio
\* is >= 50%, and then with half of the position's unrealized profit
C17_RollingIffHoldInProfit ==
    [][\A i \in 1..(Len(passes) + 1) :
          Decides(i) =>
              /\ MarginCalls(passes'[i].calls) # {}
                    <=> (passes'[i].decision[1].action = Str("HOLD")
                         /\ RollingDue)
              /\ \A c \in MarginCalls(passes'[i].calls) :
                    passes'[i].calls[c].a1 =
                        ToFixed2(JsDiv(ParseFloat(PrimaryPosition[1].upl),
                                       Num(2)))]_vars

\* C22: any two analysis passes start at least ANALYSIS_COOLDOWN apart,
\* whatever the order of timer ticks and fetch completions, and
\* lastAnalysisTime never decreases
C22_StartsCooldownApart ==
    [][/\ lastAnalysisTime' >= lastAnalysisTime
       /\ \A i, j \in 1..Len(passes') :
             i < j => passes'[j].now - passes'[i].now >= ANALYSIS_COOLDOWN]_vars

ExchangeOps == {"updatePositionTPSL", "executeOrder", "addMargin"}

\* C24: a pass makes at most one exchange call, of updatePositionTPSL,
\* executeOrder or addMargin, and none of executeOrder when its decision
\* resolved to HOLD or UPDATE_TPSL
C24_OneExchangeCallPerPass ==
    \A i \in 1..Len(passes) :
        /\ Len(passes[i].calls) <= 1
        /\ Ops(passes[i]) \subseteq ExchangeOps
        /\ (/\ passes[i].decision # <<>>
            /\ passes[i].decision[1].action
                  \in {Str("HOLD"), Str("UPDATE_TPSL")})
           => "executeOrder" \notin Ops(passes[i])

\* a pass has ended after its order was executed on an account whose
\* position is 60% in profit
C24_Witness ==
    \E i \in 1..Len(passes) :
        /\ passes[i].pc = "done"
        /\ Ops(passes[i]) = {"executeOrder"}
        /\ passes[i].calls[1].result = "ok"
        /\ passes[i].primary # <<>>
        /\ passes[i].primary[1].uplRatio = Str("0.6")

\* the number of exchange calls pass i has made so far
CallsMade(ps, i) == IF i <= Len(ps) THEN Len(ps[i].calls) ELSE 0

\* C25: while the run flag is false no pass makes an exchange call, not even
\* a pass whose reasoning-service call was started while the engine ran
C25_StoppedEngineMakesNoCall ==
    [][(~isRunning /\ ~isRunning')
          => \A i \in 1..Len(passes') :
                CallsMade(passes', i) = CallsMade(passes, i)]_vars

-----------------------------------------------------------------------------
(* A long run of addLog calls *)

\* number of addLog calls after the one of the listen callback
MaxLogCalls == 205

\* the k-th entry handed to addLog; entry 0 is the one of the listen callback
Added(k) == [type |-> "INFO", msg |-> IF k = 0 THEN "" ELSE ToString(k)]

LogInit ==
    /\ call = [fn |-> "addLog", added |-> 0]
    /\ ret = <<>>
    /\ LoopInit

\* one more call of addLog
AddLogCall ==
    /\ call.added < MaxLogCalls
    /\ logs' = addLog(logs, Added(call.added + 1).type,
                      Added(call.added + 1).msg)
    /\ call' = [call EXCEPT !.added = @ + 1]
    /\ UNCHANGED <<ret, clock, isRunning, apiKey, marketData, accountData,
                   latestDecision, lastAnalysisTime, fetches, requests,
                   timers, passes>>

LogNext == AddLogCall

SpecLog == LogInit /\ [][LogNext]_vars

\* how many of the call.added + 1 entries added so far the log should hold
Kept == IF call.added + 1 > LOG_CAP THEN LOG_CAP ELSE call.added + 1

\* C26: the log holds at most LOG_CAP entries, and they are the entries
\* added last, in the order in which they were added
C26_LogKeepsNewest ==
    /\ Len(logs) <= LOG_CAP
    /\ logs = [i \in 1..Kept |-> Added(call.added - Kept + i)]

\* more than LOG_CAP entries have been added and the oldest are gone
C26_Witness ==
    /\ call.added = LOG_CAP + 3
    /\ Len(logs) = LOG_CAP
    /\ logs[1] = Added(4)
    /\ logs[LOG_CAP] = Added(LOG_CAP + 3)

====
